---- MODULE Spec2Model ----
(***************************************************************************)
(* Portfolio API: seven document collections behind list/create routes,   *)
(* one blog lookup by slug, and two read-only GitHub proxy routes.         *)
(*                                                                         *)
(* A document is a function from field names to values.  An Optional      *)
(* value is None (the empty sequence) or a one-element sequence holding    *)
(* the value.                                                              *)
(***************************************************************************)
EXTENDS Integers, Sequences, FiniteSets, TLC

\* db:     the documents of each collection, in insertion order
\* nextId: the identifier the store stamps on the next document
\* resp:   the last request and the answer to it
VARIABLES db, nextId, resp

vars == <<db, nextId, resp>>

\* A request and its answer: the route's handler, the arguments as sent,
\* the HTTP status and body returned, and the upstream calls made for it.
Response(op, args, status, body, calls) ==
    [op |-> op, args |-> args, status |-> status, body |-> body,
     calls |-> calls]

----------------------------------------------------------------------------
(* Bounds of the model *)

\* Documents stored over all collections together.
MaxDocs == 2

\* Repositories in one upstream response.
MaxRepos == 2

----------------------------------------------------------------------------
(* Values *)

None == <<>>

Some(v) == <<v>>

Min(a, b) == IF a <= b THEN a ELSE b

\* dict.get(key, default)
Get(d, key, default) == IF key \in DOMAIN d THEN d[key] ELSE default

\* str(ObjectId): the identifier in its printed form
str(oid) == ToString(oid)

----------------------------------------------------------------------------
(* schemas.py: a model is its required fields and its defaults;            *)
(* the lowercased class name is the collection name.                       *)

Project ==
    [name     |-> "project",
     required |-> {"title", "slug", "description"},
     defaults |-> [tech |-> <<>>, image |-> None, repo_url |-> None,
                   live_url |-> None, featured |-> FALSE, stars |-> None],
     emails   |-> {}]

Testimonial ==
    [name     |-> "testimonial",
     required |-> {"name", "quote"},
     defaults |-> [role |-> None, avatar |-> None, company |-> None,
                   highlight |-> FALSE],
     emails   |-> {}]

GuestbookEntry ==
    [name     |-> "guestbookentry",
     required |-> {"name", "message"},
     defaults |-> [avatar |-> None, website |-> None],
     emails   |-> {}]

BucketItem ==
    [name     |-> "bucketitem",
     required |-> {"title"},
     defaults |-> [done |-> FALSE, notes |-> None],
     emails   |-> {}]

UseItem ==
    [name     |-> "useitem",
     required |-> {"category", "name"},
     defaults |-> [description |-> None, link |-> None],
     emails   |-> {}]

BlogPost ==
    [name     |-> "blogpost",
     required |-> {"title", "slug"},
     defaults |-> [excerpt |-> None, content |-> None, tags |-> <<>>,
                   cover_image |-> None, published |-> FALSE,
                   published_at |-> None],
     emails   |-> {}]

\* The looser model a plain `email: str` would give.
ContactMessagePlainStr ==
    [name     |-> "contactmessage",
     required |-> {"name", "email", "message"},
     defaults |-> [subject |-> None, source |-> None],
     emails   |-> {}]

ContactMessage ==
    [name     |-> "contactmessage",
     required |-> {"name", "email", "message"},
     defaults |-> [subject |-> None, source |-> None],
     emails   |-> {"email"}]

Collections ==
    {Project.name, Testimonial.name, GuestbookEntry.name, BucketItem.name,
     UseItem.name, BlogPost.name, ContactMessage.name}

Fields(model) == model.required \cup DOMAIN model.defaults

----------------------------------------------------------------------------
(* EmailStr: an address is a sequence of characters.  It is valid when it  *)
(* has exactly one "@", a non-empty local part, and a domain with a dot    *)
(* in it; neither part starts or ends with a dot or has two in a row.      *)

Positions(s, ch) == {i \in 1..Len(s) : s[i] = ch}

DotAtom(s) ==
    /\ Len(s) >= 1
    /\ s[1] # "."
    /\ s[Len(s)] # "."
    /\ \A i \in 1..(Len(s) - 1) : ~(s[i] = "." /\ s[i + 1] = ".")

EmailStr(e) ==
    /\ Cardinality(Positions(e, "@")) = 1
    /\ LET at == CHOOSE i \in Positions(e, "@") : TRUE
           local == SubSeq(e, 1, at - 1)
           domain == SubSeq(e, at + 1, Len(e))
       IN  /\ DotAtom(local)
           /\ DotAtom(domain)
           /\ Positions(domain, ".") # {}

----------------------------------------------------------------------------
(* Request validation: the framework builds the model from the payload     *)
(* before the handler runs, and answers 422 when it cannot.                *)

IsValid(model, payload) ==
    /\ model.required \subseteq DOMAIN payload
    /\ DOMAIN payload \subseteq Fields(model)
    /\ \A f \in model.emails \cap DOMAIN payload : EmailStr(payload[f])

\* The validated model: the payload's fields, and the default of every
\* field the payload leaves out.
Validated(model, payload) ==
    [f \in Fields(model) |->
        IF f \in DOMAIN payload THEN payload[f] ELSE model.defaults[f]]

----------------------------------------------------------------------------
(* Storage access layer (database.py): insert one document, find many by   *)
(* an equality filter.  Documents keep their insertion order; identifiers  *)
(* are stamped by the store, each one new.                                 *)

TotalDocs == LET n[cs \in SUBSET Collections] ==
                    IF cs = {} THEN 0
                    ELSE LET c == CHOOSE x \in cs : TRUE
                         IN  Len(db[c]) + n[cs \ {c}]
             IN  n[Collections]

\* create(collectionName, validatedDocument) -> identifier.  `up` is
\* whether the store can be reached; when it cannot, the call raises.
create_document(collection_name, data, up) ==
    IF up
    THEN [raised |-> FALSE,
          db     |-> [db EXCEPT ![collection_name] =
                          Append(@, ("_id" :> nextId) @@ data)],
          nextId |-> nextId + 1,
          id     |-> str(nextId)]
    ELSE [raised |-> TRUE, db |-> db, nextId |-> nextId, id |-> None]

Matches(doc, filter_dict) ==
    \A f \in DOMAIN filter_dict :
        f \in DOMAIN doc /\ doc[f] = filter_dict[f]

\* query(collectionName, filter, limit) -> up to `limit` matching
\* documents, in insertion order.
get_documents(collection_name, filter_dict, limit) ==
    LET matching == SelectSeq(db[collection_name],
                              LAMBDA doc : Matches(doc, filter_dict))
    IN  IF limit <= 0 THEN <<>>
        ELSE SubSeq(matching, 1, Min(limit, Len(matching)))

----------------------------------------------------------------------------
(* Serialization *)

\* The public view of a stored document: `_id` gives way to `id`, its
\* printed form.  An empty or absent document is returned as it is.
serialize_doc(doc) ==
    IF doc = <<>> THEN doc
    ELSE IF "_id" \in DOMAIN doc
         THEN [f \in DOMAIN doc \ {"_id"} |-> doc[f]]
                  @@ [id |-> str(doc["_id"])]
         ELSE doc

----------------------------------------------------------------------------
(* Route handlers.  A list handler yields the response body; a create      *)
(* handler yields the store after it and the response.                     *)

\* What a create handler answers for the storage layer's result r.
Answer(r, body) ==
    IF r.raised
    THEN [db |-> r.db, nextId |-> r.nextId, status |-> 500,
          body |-> "Internal Server Error"]
    ELSE [db |-> r.db, nextId |-> r.nextId, status |-> 200, body |-> body]

\* list_projects with the limit parameter dropped for the default.
list_projects_default_limit(featured, limit) ==
    LET query == IF featured # None THEN [featured |-> featured[1]] ELSE <<>>
        items == get_documents("project", query, 50)
    IN  [i \in 1..Len(items) |-> serialize_doc(items[i])]

list_projects(featured, limit) ==
    LET query == IF featured # None THEN [featured |-> featured[1]] ELSE <<>>
        items == get_documents("project", query, limit)
    IN  [i \in 1..Len(items) |-> serialize_doc(items[i])]

create_project(project, up) ==
    LET r == create_document("project", project, up)
    IN  Answer(r, [id |-> r.id])

list_testimonials(limit) ==
    LET items == get_documents("testimonial", <<>>, limit)
    IN  [i \in 1..Len(items) |-> serialize_doc(items[i])]

\* create_testimonial writing to the collection of the handler above it.
create_testimonial_in_project(item, up) ==
    LET r == create_document("project", item, up)
    IN  Answer(r, [id |-> r.id])

create_testimonial(item, up) ==
    LET r == create_document("testimonial", item, up)
    IN  Answer(r, [id |-> r.id])

list_guestbook(limit) ==
    LET items == get_documents("guestbookentry", <<>>, limit)
    IN  [i \in 1..Len(items) |-> serialize_doc(items[i])]

sign_guestbook(entry, up) ==
    LET r == create_document("guestbookentry", entry, up)
    IN  Answer(r, [id |-> r.id])

list_bucket(limit) ==
    LET items == get_documents("bucketitem", <<>>, limit)
    IN  [i \in 1..Len(items) |-> serialize_doc(items[i])]

\* add_bucket answering a repeated item with the stored one's identifier.
add_bucket_dedup(item, up) ==
    LET same == SelectSeq(db["bucketitem"],
                          LAMBDA doc : serialize_doc(doc) =
                              item @@ [id |-> str(doc["_id"])])
        r == create_document("bucketitem", item, up)
    IN  IF up /\ same # <<>>
        THEN [db |-> db, nextId |-> nextId, status |-> 200,
              body |-> [id |-> str(same[1]["_id"])]]
        ELSE Answer(r, [id |-> r.id])

add_bucket(item, up) ==
    LET r == create_document("bucketitem", item, up)
    IN  Answer(r, [id |-> r.id])

list_uses(limit) ==
    LET items == get_documents("useitem", <<>>, limit)
    IN  [i \in 1..Len(items) |-> serialize_doc(items[i])]

add_use(item, up) ==
    LET r == create_document("useitem", item, up)
    IN  Answer(r, [id |-> r.id])

list_blog(published, limit) ==
    LET query == IF published # None THEN [published |-> published[1]]
                 ELSE <<>>
        items == get_documents("blogpost", query, limit)
    IN  [i \in 1..Len(items) |-> serialize_doc(items[i])]

\* get_blog looking among the published posts only.
get_blog_published_only(slug) ==
    LET items == get_documents("blogpost",
                               [slug |-> slug, published |-> TRUE], 1)
    IN  IF items = <<>>
        THEN [status |-> 404, body |-> [detail |-> "Post not found"]]
        ELSE [status |-> 200, body |-> serialize_doc(items[1])]

get_blog(slug) ==
    LET items == get_documents("blogpost", [slug |-> slug], 1)
    IN  IF items = <<>>
        THEN [status |-> 404, body |-> [detail |-> "Post not found"]]
        ELSE [status |-> 200, body |-> serialize_doc(items[1])]

create_blog(post, up) ==
    LET r == create_document("blogpost", post, up)
    IN  Answer(r, [id |-> r.id])

contact(message, up) ==
    LET r == create_document("contactmessage", message, up)
    IN  Answer(r, [id |-> r.id, status |-> "received"])

----------------------------------------------------------------------------
(* GitHub proxy routes.  The answer of the upstream to each request is an  *)
(* input; a handler yields its response and the calls it made, in order.   *)
(* An upstream answer either is raised (no response: timeout, network) or  *)
(* carries status_code, text (the raw body) and json (the body parsed).    *)

InternalServerError(calls) ==
    [status |-> 500, body |-> "Internal Server Error", calls |-> calls]

\* HTTPException(status_code=resp.status_code, detail=resp.text)
Surface(response, calls) ==
    [status |-> response.status_code, body |-> [detail |-> response.text],
     calls |-> calls]

RECURSIVE SumStars(_)
SumStars(repos) ==
    IF repos = <<>> THEN 0
    ELSE Get(repos[1], "stargazers_count", 0) + SumStars(Tail(repos))

\* github_stats going on to the repositories whatever the profile answer.
github_stats_no_check(user, user_resp, repos_resp) ==
    LET c1 == [url |-> <<"users", user>>, params |-> <<>>,
               response |-> user_resp]
        c2 == [url |-> <<"users", user, "repos">>,
               params |-> [per_page |-> 100, sort |-> "updated"],
               response |-> repos_resp]
    IN  IF user_resp.raised THEN InternalServerError(<<c1>>)
        ELSE IF repos_resp.raised THEN InternalServerError(<<c1, c2>>)
        ELSE LET stars == IF repos_resp.status_code = 200
                          THEN SumStars(repos_resp.json) ELSE 0
                 data == user_resp.json
             IN  [status |-> 200,
                  body   |-> [followers |-> Get(data, "followers", 0),
                              public_repos |-> Get(data, "public_repos", 0),
                              stars |-> stars],
                  calls  |-> <<c1, c2>>]

\* github_stats surfacing a failed repository fetch like a failed profile.
github_stats_strict(user, user_resp, repos_resp) ==
    LET c1 == [url |-> <<"users", user>>, params |-> <<>>,
               response |-> user_resp]
        c2 == [url |-> <<"users", user, "repos">>,
               params |-> [per_page |-> 100, sort |-> "updated"],
               response |-> repos_resp]
    IN  IF user_resp.raised THEN InternalServerError(<<c1>>)
        ELSE IF user_resp.status_code # 200 THEN Surface(user_resp, <<c1>>)
        ELSE IF repos_resp.raised THEN InternalServerError(<<c1, c2>>)
        ELSE IF repos_resp.status_code # 200
             THEN Surface(repos_resp, <<c1, c2>>)
        ELSE LET data == user_resp.json
             IN  [status |-> 200,
                  body   |-> [followers |-> Get(data, "followers", 0),
                              public_repos |-> Get(data, "public_repos", 0),
                              stars |-> SumStars(repos_resp.json)],
                  calls  |-> <<c1, c2>>]

github_stats(user, user_resp, repos_resp) ==
    LET c1 == [url |-> <<"users", user>>, params |-> <<>>,
               response |-> user_resp]
        c2 == [url |-> <<"users", user, "repos">>,
               params |-> [per_page |-> 100, sort |-> "updated"],
               response |-> repos_resp]
    IN  IF user_resp.raised THEN InternalServerError(<<c1>>)
        ELSE IF user_resp.status_code # 200 THEN Surface(user_resp, <<c1>>)
        ELSE IF repos_resp.raised THEN InternalServerError(<<c1, c2>>)
        ELSE LET stars == IF repos_resp.status_code = 200
                          THEN SumStars(repos_resp.json) ELSE 0
                 data == user_resp.json
             IN  [status |-> 200,
                  body   |-> [followers |-> Get(data, "followers", 0),
                              public_repos |-> Get(data, "public_repos", 0),
                              stars |-> stars],
                  calls  |-> <<c1, c2>>]

RepoKeys ==
    {"name", "full_name", "description", "html_url", "language",
     "stargazers_count", "forks_count", "topics", "homepage"}

\* The projection with the upstream object handed on as it came.
mapped_passthrough(r) == r

\* One entry of `mapped`: r.get(key) for each key, topics defaulting to [].
mapped(r) ==
    [k \in RepoKeys |->
        IF k = "topics" THEN Get(r, "topics", <<>>) ELSE Get(r, k, None)]

\* The repositories request of github_repos.
repos_request(user, limit) ==
    [url |-> <<"users", user, "repos">>,
     params |-> [per_page |-> Min(limit, 100), sort |-> "updated"]]

github_repos(user, limit, response) ==
    LET calls == <<repos_request(user, limit) @@ [response |-> response]>>
    IN  IF response.raised THEN InternalServerError(calls)
        ELSE IF response.status_code # 200 THEN Surface(response, calls)
        ELSE [status |-> 200,
              body |-> [i \in 1..Len(response.json) |->
                            mapped(response.json[i])],
              calls |-> calls]

----------------------------------------------------------------------------
(* Requests: the inputs the routes are called with *)

\* Values of the `limit` query parameter.
Limits == {-1, 0, 1}

\* Query strings: an optional boolean flag and an optional limit.
Queries(flag) ==
    {f @@ l : f \in {<<>>} \cup {[k \in {flag} |-> b] : b \in BOOLEAN},
              l \in {<<>>} \cup {[limit |-> n] : n \in Limits}}

LimitQueries == {<<>>} \cup {[limit |-> n] : n \in Limits}

\* The handler's argument for an optional parameter with default None.
Optional(query, key) ==
    IF key \in DOMAIN query THEN Some(query[key]) ELSE None

\* Default values of the handlers' parameters.
projects_limit == 50

testimonials_limit == 50

guestbook_limit == 100

bucket_limit == 100

uses_limit == 200

blog_limit == 50

\* list_blog's `published` defaulting to None.
blog_published_none == None

blog_published == Some(TRUE)

repos_limit == 12

Slugs == {"s1", "s2"}

ProjectPayloads ==
    {[title |-> "t", slug |-> "s1", description |-> "d"],
     [title |-> "t", slug |-> "s1", description |-> "d", featured |-> TRUE],
     [title |-> "t", description |-> "d"]}

TestimonialPayloads == {[name |-> "n", quote |-> "q"], [name |-> "n"]}

GuestbookPayloads == {[name |-> "n", message |-> "m"], [message |-> "m"]}

BucketPayloads == {[title |-> "t"], [done |-> TRUE]}

UsePayloads == {[category |-> "c", name |-> "n"], [name |-> "n"]}

BlogPayloads ==
    {[title |-> "t", slug |-> "s1"],
     [title |-> "t", slug |-> "s1", published |-> TRUE],
     [title |-> "t", slug |-> "s2", published |-> TRUE],
     [title |-> "t"]}

Emails ==
    {<<"a", "@", "b", ".", "c">>,
     <<"a", "b", ".", "c">>,
     <<"a", "@", "b">>,
     <<"@", "b", ".", "c">>}

ContactPayloads ==
    {[name |-> "n", email |-> e, message |-> "m"] : e \in Emails}
        \cup {[name |-> "n", message |-> "m"]}

Users == {"octocat", "hubot"}

Raised == [raised |-> TRUE]

UserResponses ==
    {Raised,
     [raised |-> FALSE, status_code |-> 404, text |-> "Not Found",
      json |-> [message |-> "Not Found"]],
     [raised |-> FALSE, status_code |-> 200, text |-> "profile",
      json |-> [login |-> "octocat", followers |-> 3, public_repos |-> 2]],
     [raised |-> FALSE, status_code |-> 200, text |-> "profile",
      json |-> [login |-> "octocat"]]}

RepoObjects ==
    {[name |-> "r", full_name |-> "octocat/r", description |-> "d",
      html_url |-> "h", language |-> "py", stargazers_count |-> 2,
      forks_count |-> 1, topics |-> <<"t">>, homepage |-> "p",
      id |-> 7, fork |-> FALSE],
     [name |-> "s", id |-> 8]}

\* The upstream returns at most per_page repositories when per_page is one
\* it accepts (1..100); what it does with another value is its own affair.
RepoLists(per_page) ==
    {l \in UNION {[1..n -> RepoObjects] : n \in 0..MaxRepos} :
        per_page \in 1..100 => Len(l) <= per_page}

ReposResponses(per_page) ==
    {Raised,
     [raised |-> FALSE, status_code |-> 500, text |-> "Server Error",
      json |-> [message |-> "Server Error"]]}
        \cup {[raised |-> FALSE, status_code |-> 200, text |-> "repos",
               json |-> l] : l \in RepoLists(per_page)}

RepoLimits == {-1, 0, 1, 2, 101}

RepoQueries == {<<>>} \cup {[limit |-> n] : n \in RepoLimits}

----------------------------------------------------------------------------
(* The system: one action per route *)

Init ==
    /\ db = [c \in Collections |-> <<>>]
    /\ nextId = 1
    /\ resp = Response("none", <<>>, 0, <<>>, <<>>)

\* The fields of the payload the model rejects.
Violations(model, payload) ==
    (model.required \ DOMAIN payload)
        \cup (DOMAIN payload \ Fields(model))
        \cup {f \in model.emails \cap DOMAIN payload : ~EmailStr(payload[f])}

\* A GET route: the store is read, never written.
Read(op, query, status, body) ==
    /\ resp' = Response(op, query, status, body, <<>>)
    /\ UNCHANGED <<db, nextId>>

\* A POST route: the payload is validated, then handed to the handler,
\* whose result is `result`.
Post(op, model, payload, result) ==
    IF IsValid(model, payload)
    THEN /\ result.status = 200 => TotalDocs < MaxDocs
         /\ db' = result.db
         /\ nextId' = result.nextId
         /\ resp' = Response(op, payload, result.status, result.body, <<>>)
    ELSE /\ resp' = Response(op, payload, 422,
                             [detail |-> Violations(model, payload)], <<>>)
         /\ UNCHANGED <<db, nextId>>

GetProjects ==
    \E q \in Queries("featured") :
        Read("list_projects", q, 200,
             list_projects(Optional(q, "featured"),
                           Get(q, "limit", projects_limit)))

PostProjects ==
    \E payload \in ProjectPayloads, up \in BOOLEAN :
        Post("create_project", Project, payload,
             create_project(Validated(Project, payload), up))

GetTestimonials ==
    \E q \in LimitQueries :
        Read("list_testimonials", q, 200,
             list_testimonials(Get(q, "limit", testimonials_limit)))

PostTestimonials ==
    \E payload \in TestimonialPayloads, up \in BOOLEAN :
        Post("create_testimonial", Testimonial, payload,
             create_testimonial(Validated(Testimonial, payload), up))

GetGuestbook ==
    \E q \in LimitQueries :
        Read("list_guestbook", q, 200,
             list_guestbook(Get(q, "limit", guestbook_limit)))

PostGuestbook ==
    \E payload \in GuestbookPayloads, up \in BOOLEAN :
        Post("sign_guestbook", GuestbookEntry, payload,
             sign_guestbook(Validated(GuestbookEntry, payload), up))

GetBucket ==
    \E q \in LimitQueries :
        Read("list_bucket", q, 200,
             list_bucket(Get(q, "limit", bucket_limit)))

PostBucket ==
    \E payload \in BucketPayloads, up \in BOOLEAN :
        Post("add_bucket", BucketItem, payload,
             add_bucket(Validated(BucketItem, payload), up))

GetUses ==
    \E q \in LimitQueries :
        Read("list_uses", q, 200, list_uses(Get(q, "limit", uses_limit)))

PostUses ==
    \E payload \in UsePayloads, up \in BOOLEAN :
        Post("add_use", UseItem, payload,
             add_use(Validated(UseItem, payload), up))

GetBlog ==
    \E q \in Queries("published") :
        Read("list_blog", q, 200,
             list_blog(IF "published" \in DOMAIN q THEN Some(q.published)
                       ELSE blog_published,
                       Get(q, "limit", blog_limit)))

GetBlogSlug ==
    \E slug \in Slugs \cup {"s3"} :
        LET r == get_blog(slug)
        IN  Read("get_blog", [slug |-> slug], r.status, r.body)

PostBlog ==
    \E payload \in BlogPayloads, up \in BOOLEAN :
        Post("create_blog", BlogPost, payload,
             create_blog(Validated(BlogPost, payload), up))

PostContact ==
    \E payload \in ContactPayloads, up \in BOOLEAN :
        Post("contact", ContactMessage, payload,
             contact(Validated(ContactMessage, payload), up))

\* The repositories request is answered only when it is made.
GetStatsGithub ==
    \E user \in Users, user_resp \in UserResponses :
      \E repos_resp \in IF ~user_resp.raised /\ user_resp.status_code = 200
                        THEN ReposResponses(100) ELSE {Raised} :
        LET r == github_stats(user, user_resp, repos_resp)
        IN  /\ resp' = Response("github_stats", [user |-> user],
                                r.status, r.body, r.calls)
            /\ UNCHANGED <<db, nextId>>

GetGithubRepos ==
    \E user \in Users, q \in RepoQueries :
        LET limit == Get(q, "limit", repos_limit)
        IN  \E response \in ReposResponses(repos_request(user, limit).params.per_page) :
                LET r == github_repos(user, limit, response)
                IN  /\ resp' = Response("github_repos",
                                        [user |-> user] @@ q,
                                        r.status, r.body, r.calls)
                    /\ UNCHANGED <<db, nextId>>

StoreNext ==
    \/ GetProjects
    \/ PostProjects
    \/ GetTestimonials
    \/ PostTestimonials
    \/ GetGuestbook
    \/ PostGuestbook
    \/ GetBucket
    \/ PostBucket
    \/ GetUses
    \/ PostUses
    \/ GetBlog
    \/ GetBlogSlug
    \/ PostBlog
    \/ PostContact

GitHubNext ==
    \/ GetStatsGithub
    \/ GetGithubRepos

Next == StoreNext \/ GitHubNext

\* The whole API.
Spec == Init /\ [][Next]_vars

\* The document routes alone.
SpecStore == Init /\ [][StoreNext]_vars

\* The GitHub proxy routes alone.
SpecGitHub == Init /\ [][GitHubNext]_vars

----------------------------------------------------------------------------
(* Properties *)

ListOps ==
    {"list_projects", "list_testimonials", "list_guestbook", "list_bucket",
     "list_uses", "list_blog"}

ReadOps == ListOps \cup {"get_blog", "github_stats", "github_repos"}

CreateOps ==
    {"create_project", "create_testimonial", "sign_guestbook", "add_bucket",
     "add_use", "create_blog", "contact"}

\* The model and the collection a create route writes.
ModelOf(op) ==
    CASE op = "create_project"     -> Project
      [] op = "create_testimonial" -> Testimonial
      [] op = "sign_guestbook"     -> GuestbookEntry
      [] op = "add_bucket"         -> BucketItem
      [] op = "add_use"            -> UseItem
      [] op = "create_blog"        -> BlogPost
      [] op = "contact"            -> ContactMessage

\* The collection a list route reads.
ListedCollection(op) ==
    CASE op = "list_projects"     -> "project"
      [] op = "list_testimonials" -> "testimonial"
      [] op = "list_guestbook"    -> "guestbookentry"
      [] op = "list_bucket"       -> "bucketitem"
      [] op = "list_uses"         -> "useitem"
      [] op = "list_blog"         -> "blogpost"

\* The limit a list request runs with: the one sent, or the route's default.
LimitOf(r) ==
    IF "limit" \in DOMAIN r.args THEN r.args.limit
    ELSE CASE r.op = "list_projects"     -> projects_limit
           [] r.op = "list_testimonials" -> testimonials_limit
           [] r.op = "list_guestbook"    -> guestbook_limit
           [] r.op = "list_bucket"       -> bucket_limit
           [] r.op = "list_uses"         -> uses_limit
           [] r.op = "list_blog"         -> blog_limit
           [] r.op = "github_repos"      -> repos_limit

\* C1: list_blog without `published` returns only published posts, and
\* with an explicit `published` only posts whose flag has that value
\* (published=false: only unpublished ones).
C1_BlogListFilter ==
    resp.op = "list_blog" =>
        LET want == IF "published" \in DOMAIN resp.args
                    THEN resp.args.published ELSE TRUE
        IN  \A i \in 1..Len(resp.body) : resp.body[i].published = want

\* A default listing that returned a post while an unpublished one is stored.
C1_Witness ==
    /\ resp.op = "list_blog"
    /\ "published" \notin DOMAIN resp.args
    /\ Len(resp.body) >= 1
    /\ \E i \in 1..Len(db["blogpost"]) : ~db["blogpost"][i].published

\* C2 as stated: for every list route and every integer limit, zero and
\* negative ones included, no more documents are returned than the limit.
C2_AnyLimit ==
    resp.op \in ListOps => Len(resp.body) <= LimitOf(resp)

\* C2 amended: for every list route and every limit that is not negative
\* (the default when none is sent), no more documents are returned than
\* the limit.
C2_NonNegativeLimit ==
    (resp.op \in ListOps /\ LimitOf(resp) >= 0)
        => Len(resp.body) <= LimitOf(resp)

\* A listing cut short: limit 1 over a collection of two.
C2_Witness ==
    /\ resp.op \in ListOps
    /\ LimitOf(resp) = 1
    /\ Len(resp.body) = 1
    /\ Len(db[ListedCollection(resp.op)]) = 2

\* What the route that retrieves the documents of a create route returns:
\* the list with no parameters or, for blog posts, the lookup by slug.
Retrieved(r) ==
    CASE r.op = "create_project" ->
            list_projects(None, projects_limit)
      [] r.op = "create_testimonial" ->
            list_testimonials(testimonials_limit)
      [] r.op = "sign_guestbook" -> list_guestbook(guestbook_limit)
      [] r.op = "add_bucket" -> list_bucket(bucket_limit)
      [] r.op = "add_use" -> list_uses(uses_limit)
      [] r.op = "create_blog" ->
            LET g == get_blog(r.args.slug)
            IN  IF g.status = 200 THEN <<g.body>> ELSE <<>>

C4_ProfileFailureIsFatal ==
    (/\ resp.op = "github_stats"
     /\ ~resp.calls[1].response.raised
     /\ resp.calls[1].response.status_code # 200)
        => /\ resp.status = resp.calls[1].response.status_code
           /\ resp.body = [detail |-> resp.calls[1].response.text]
           /\ Len(resp.calls) = 1
           /\ resp.calls[1].url = <<"users", resp.args.user>>

C4_Witness ==
    /\ resp.op = "github_stats"
    /\ ~resp.calls[1].response.raised
    /\ resp.calls[1].response.status_code = 404
    /\ resp.status = 404

\* C5: when the profile fetch succeeds and the repositories fetch comes
\* back with a failing status, the answer is 200 with stars 0 and the
\* profile's followers and public_repos.
C5_ReposFailureIsNotFatal ==
    (/\ resp.op = "github_stats"
     /\ Len(resp.calls) = 2
     /\ ~resp.calls[2].response.raised
     /\ resp.calls[2].response.status_code # 200)
        => LET data == resp.calls[1].response.json
           IN  /\ resp.status = 200
               /\ resp.body.stars = 0
               /\ resp.body.followers = Get(data, "followers", 0)
               /\ resp.body.public_repos = Get(data, "public_repos", 0)

C5_Witness ==
    /\ resp.op = "github_stats"
    /\ Len(resp.calls) = 2
    /\ ~resp.calls[2].response.raised
    /\ resp.calls[2].response.status_code = 500
    /\ resp.status = 200
    /\ resp.body.followers = 3

\* Each entry has the nine keys of the projection and no other.
NineKeys == \A i \in 1..Len(resp.body) : DOMAIN resp.body[i] = RepoKeys

\* C6 as stated: for every integer limit a successful github_repos returns
\* at most min(limit, 100) entries, each with exactly the nine keys.
C6_AnyLimit ==
    (resp.op = "github_repos" /\ resp.status = 200)
        => /\ Len(resp.body) <= Min(LimitOf(resp), 100)
           /\ NineKeys

\* C6 amended: a successful github_repos asks the upstream for
\* per_page = min(limit, 100) and returns one entry for each repository of
\* the answer, each with exactly the nine keys; for a limit of 1 or more,
\* which the upstream honours, that is at most min(limit, 100) entries.
C6_PositiveLimit ==
    (resp.op = "github_repos" /\ resp.status = 200)
        => /\ resp.calls[1].params.per_page = Min(LimitOf(resp), 100)
           /\ Len(resp.body) = Len(resp.calls[1].response.json)
           /\ LimitOf(resp) >= 1
                  => Len(resp.body) <= Min(LimitOf(resp), 100)
           /\ NineKeys

\* limit=1 answered with one repository that carries other fields too.
C6_Witness ==
    /\ resp.op = "github_repos"
    /\ resp.status = 200
    /\ LimitOf(resp) = 1
    /\ Len(resp.body) = 1
    /\ "id" \in DOMAIN resp.calls[1].response.json[1]

\* C7: a contact request whose email is not a valid address is answered
\* with a validation error naming the field, with no identifier and no
\* acknowledgment, and leaves every collection as it was.
C7_InvalidEmailRejected ==
    [][(/\ resp'.op = "contact"
        /\ "email" \in DOMAIN resp'.args
        /\ ~EmailStr(resp'.args.email))
           => /\ db' = db
              /\ nextId' = nextId
              /\ resp'.status = 422
              /\ DOMAIN resp'.body = {"detail"}
              /\ "email" \in resp'.body.detail]_vars

C7_Witness ==
    /\ resp.op = "contact"
    /\ "email" \in DOMAIN resp.args
    /\ ~EmailStr(resp.args.email)
    /\ resp.status = 422
    /\ Len(db["contactmessage"]) = 1

\* Where the documents of a store are: (collection, position).
Slots(store) ==
    UNION {{<<c, i>> : i \in 1..Len(store[c])} : c \in Collections}

IdAt(store, slot) == store[slot[1]][slot[2]]["_id"]

UniqueIds(store) ==
    \A p, q \in Slots(store) : p # q => IdAt(store, p) # IdAt(store, q)

\* C8: every successful create adds exactly one document to its
\* collection and returns that document's identifier, which no document
\* stored before has; no two stored documents ever share an identifier.
C8_NoDeduplication ==
    [][/\ UniqueIds(db')
       /\ (resp'.op \in CreateOps /\ resp'.status = 200)
              => LET c == ModelOf(resp'.op).name
                 IN  /\ Len(db'[c]) = Len(db[c]) + 1
                     /\ resp'.body.id = str(db'[c][Len(db'[c])]["_id"])
                     /\ \A p \in Slots(db) :
                            str(IdAt(db, p)) # resp'.body.id]_vars

\* The same bucket item posted twice: two documents, alike but for the id.
C8_Witness ==
    /\ resp.op = "add_bucket"
    /\ resp.status = 200
    /\ Len(db["bucketitem"]) = 2
    /\ LET a == serialize_doc(db["bucketitem"][1])
           b == serialize_doc(db["bucketitem"][2])
       IN  /\ a.id # b.id
           /\ resp.body.id = b.id
           /\ [f \in DOMAIN a \ {"id"} |-> a[f]]
                  = [f \in DOMAIN b \ {"id"} |-> b[f]]

\* C9: get_blog answers 404, with no document, exactly when no stored post
\* has the slug; otherwise it answers with one stored post of that slug,
\* serialized, whatever its published flag.
C9_GetBlogBySlug ==
    resp.op = "get_blog" =>
        LET posts == {i \in 1..Len(db["blogpost"]) :
                         db["blogpost"][i].slug = resp.args.slug}
        IN  /\ resp.status = 404 <=> posts = {}
            /\ posts = {} => resp.body = [detail |-> "Post not found"]
            /\ posts # {} =>
                   /\ resp.status = 200
                   /\ resp.body.slug = resp.args.slug
                   /\ \E i \in posts :
                          resp.body = serialize_doc(db["blogpost"][i])

\* An unpublished post fetched by its slug.
C9_Witness ==
    /\ resp.op = "get_blog"
    /\ resp.status = 200
    /\ ~resp.body.published
    /\ resp.body.slug = resp.args.slug

\* C10: every stored document stays where it is, as it is; a read leaves
\* every collection unchanged; a create leaves every collection but its
\* own unchanged.
C10_DocumentsAreReadOnly ==
    [][/\ \A c \in Collections :
              /\ Len(db[c]) <= Len(db'[c])
              /\ SubSeq(db'[c], 1, Len(db[c])) = db[c]
       /\ resp'.op \in ReadOps => db' = db
       /\ resp'.op \in CreateOps =>
              \A c \in Collections \ {ModelOf(resp'.op).name} :
                  db'[c] = db[c]]_vars

\* A stats request answered over a store with documents in two collections.
C10_Witness ==
    /\ resp.op = "github_stats"
    /\ resp.status = 200
    /\ Cardinality({c \in Collections : db[c] # <<>>}) = 2

====
